---- MODULE Spec2Model ----
(***************************************************************************)
(* A model of the tellme content store and of its content selection.       *)
(*                                                                         *)
(* The store is the SQLite file tellme_data/tellme.db with the tables      *)
(* content and user_interactions.  The desktop build (src-tauri) and the   *)
(* library build (src) each have their own Topic registry and their own    *)
(* Database type over the same file.                                       *)
(*                                                                         *)
(* Scores are f64 in the source.  They are held here as exact multiples of *)
(* 1/Scale, where Scale makes every ratio and every product of penalty     *)
(* factors an integer.  The rounding of the f64 sum and subtractions of    *)
(* weighted_random_selection is a bounded error on the total weight.       *)
(***************************************************************************)
EXTENDS Integers, Sequences, FiniteSets, TLC

VARIABLES content, interactions, clock, last, app, unit

vars == <<content, interactions, clock, last, app, unit>>

---------------------------------------------------------------------------
(* Bounds of the model *)

NumTopics == 2

MaxContent == 2

MaxInteractions == 2

MaxOlder == 3

RoundErr == 2

MaxBody == 2

MaxText == 6

NumRequests == 2

MaxWords == 801

MaxParagraphs == 3

MaxLength == 5

---------------------------------------------------------------------------
(* Generic helpers *)

Max(a, b) == IF a >= b THEN a ELSE b

Min(a, b) == IF a <= b THEN a ELSE b

Range(s) == {s[i] : i \in 1..Len(s)}

RECURSIVE Gcd(_, _)
Gcd(a, b) == IF b = 0 THEN a ELSE Gcd(b, a % b)

RECURSIVE LcmUpTo(_)
LcmUpTo(n) == IF n <= 1 THEN 1 ELSE LET l == LcmUpTo(n - 1) IN (l * n) \div Gcd(l, n)

RECURSIVE SumSeq(_)
SumSeq(s) == IF s = <<>> THEN 0 ELSE s[1] + SumSeq(Tail(s))

Orders(S) == {f \in [1..Cardinality(S) -> S] : \A i, j \in DOMAIN f : i # j => f[i] # f[j]}

\* The decimal part of the unit of score: five one-decimal factors
Decimals == 10 * 10 * 10 * 10 * 10

\* One unit of score: 1.0 is Scale.  Ratios n/d with d up to the number of
\* stored interactions and products of up to five one-decimal factors are exact.
Scale == LcmUpTo(Max(MaxInteractions, MaxOlder + 5)) * Decimals

---------------------------------------------------------------------------
(* The two Topic registries and their JSON form *)

DesktopTopicNames == <<"Prehistoric", "AncientEgypt", "AncientGreece", "AncientRome", "AncientChina", "Byzantine", "Medieval", "Viking", "Islamic", "Mongol", "Renaissance", "AgeOfExploration", "Colonial", "Enlightenment", "Industrial", "NineteenthCentury", "WorldWarOne", "InterwarPeriod", "WorldWarTwo", "ColdWar", "Contemporary">>

\* The library build's registry shares no name with the desktop build's; its
\* first two topics stand for all of them
LibTopic_all == <<"Facts", "History">>

\* Topic::all() of the desktop build, cut to the first NumTopics topics
Topic_all == SubSeq(DesktopTopicNames, 1, NumTopics)

Topic == Range(Topic_all)

LibTopic == Range(LibTopic_all)

\* serde_json::to_string(&topic): a unit variant is its name as a JSON string
to_string(topic) == "\"" \o topic \o "\""

\* serde_json::from_str::<Topic>(s) against a registry: Ok(topic) or Err
from_str(registry, s) ==
  IF \E t \in registry : to_string(t) = s
  THEN [ok |-> TRUE, val |-> CHOOSE t \in registry : to_string(t) = s]
  ELSE [ok |-> FALSE, val |-> ""]

\* Every topic string a row of the content table can carry
TopicStrings == {to_string(t) : t \in Topic \cup LibTopic}

InteractionTypes == {"fully_read", "skipped"}

---------------------------------------------------------------------------
(* The tables *)

\* content(id INTEGER PRIMARY KEY AUTOINCREMENT, topic TEXT, ...)
ContentRow(id, topic_str) == [id |-> id, topic |-> topic_str]

\* user_interactions(content_id, interaction_type, timestamp, ...)
InteractionRow(content_id, interaction_type, timestamp) ==
  [content_id |-> content_id, interaction_type |-> interaction_type, timestamp |-> timestamp]

\* user_interactions ui JOIN content c ON ui.content_id = c.id :
\* the interaction rows that have a content row, by index
Joined(c, ints) == {i \in 1..Len(ints) : \E k \in 1..Len(c) : c[k].id = ints[i].content_id}

\* c.topic of a joined row
JoinedTopic(c, ints, i) == c[CHOOSE k \in 1..Len(c) : c[k].id = ints[i].content_id].topic

---------------------------------------------------------------------------
(* Results *)

Ok(v) == [ok |-> TRUE, val |-> v]

Err == [ok |-> FALSE, val |-> <<>>]

\* Result::unwrap_or
unwrap_or(r, default) == IF r.ok THEN r.val ELSE default

\* Option<ContentUnit>
None == [some |-> FALSE, id |-> 0, topic |-> ""]

Some(id, topic) == [some |-> TRUE, id |-> id, topic |-> topic]

---------------------------------------------------------------------------
(* Database::get_topic_preferences *)

\* SELECT c.topic, ui.interaction_type, COUNT(*) FROM user_interactions ui
\* JOIN content c ON ui.content_id = c.id GROUP BY c.topic, ui.interaction_type
PreferenceRows(c, ints) ==
  LET J == Joined(c, ints)
      groups == {<<JoinedTopic(c, ints, i), ints[i].interaction_type>> : i \in J}
  IN {[topic |-> g[1], interaction_type |-> g[2],
       count |-> Cardinality({i \in J : /\ JoinedTopic(c, ints, i) = g[1]
                                        /\ ints[i].interaction_type = g[2]})] : g \in groups}

RECURSIVE SumCount(_)
SumCount(rows) ==
  IF rows = {} THEN 0
  ELSE LET r == CHOOSE x \in rows : TRUE IN r.count + SumCount(rows \ {r})

\* topic_stats: (fully_read, skipped) per decoded topic; other types are ignored
topic_stats(rows) ==
  [t \in {from_str(Topic, r.topic).val : r \in rows} |->
     <<SumCount({r \in rows : from_str(Topic, r.topic).val = t /\ r.interaction_type = "fully_read"}),
       SumCount({r \in rows : from_str(Topic, r.topic).val = t /\ r.interaction_type = "skipped"})>>]

\* A slip: the share of skipped interactions instead of fully read ones
PreferenceScore_skipped(fully_read, skipped) == skipped * (Scale \div (fully_read + skipped))

\* fully_read as f64 / total as f64, in units of 1/Scale
PreferenceScore(fully_read, skipped) == fully_read * (Scale \div (fully_read + skipped))

\* A slip: a topic is kept only if a unit of it was read in full
get_topic_preferences_read(c, ints, fails) ==
  IF fails THEN Err
  ELSE LET rows == PreferenceRows(c, ints) IN
       IF \E r \in rows : ~from_str(Topic, r.topic).ok THEN Err
       ELSE LET stats == topic_stats(rows) IN
            Ok([t \in {x \in DOMAIN stats : stats[x][1] > 0} |->
                  PreferenceScore(stats[t][1], stats[t][2])])

get_topic_preferences(c, ints, fails) ==
  IF fails THEN Err
  ELSE LET rows == PreferenceRows(c, ints) IN
       IF \E r \in rows : ~from_str(Topic, r.topic).ok THEN Err
       ELSE LET stats == topic_stats(rows) IN
            Ok([t \in {x \in DOMAIN stats : stats[x][1] + stats[x][2] > 0} |->
                  PreferenceScore(stats[t][1], stats[t][2])])

---------------------------------------------------------------------------
(* Database::get_recent_topics and Database::get_topic_interaction_count *)

\* get_weighted_random_content asks for the last 5 topics
RecentLimit == 5

\* ORDER BY ui.timestamp DESC over a set of joined rows: every order of the
\* rows that SQLite may produce (rows of equal timestamp come in any order)
RECURSIVE OrderByTimestampDesc(_, _)
OrderByTimestampDesc(ints, S) ==
  IF S = {} THEN {<<>>}
  ELSE UNION {{<<i>> \o rest : rest \in OrderByTimestampDesc(ints, S \ {i})} :
                i \in {j \in S : \A k \in S : ints[j].timestamp >= ints[k].timestamp}}

\* The topic strings of the first `limit` joined rows in the order `o`
RecentRows(c, ints, limit, o) == [k \in 1..Min(limit, Len(o)) |-> JoinedTopic(c, ints, o[k])]

\* The loop over the rows: a topic string that does not decode is left out
RECURSIVE PushDecoded(_)
PushDecoded(strs) ==
  IF strs = <<>> THEN <<>>
  ELSE LET d == from_str(Topic, Head(strs)) IN
       (IF d.ok THEN <<d.val>> ELSE <<>>) \o PushDecoded(Tail(strs))

get_recent_topics(c, ints, limit, o, fails) ==
  IF fails THEN Err ELSE Ok(PushDecoded(RecentRows(c, ints, limit, o)))

\* SELECT COUNT(*) ... JOIN ... WHERE c.topic = ?1
get_topic_interaction_count(c, ints, topic, fails) ==
  IF fails THEN Err
  ELSE Ok(Cardinality({i \in Joined(c, ints) : JoinedTopic(c, ints, i) = to_string(topic)}))

---------------------------------------------------------------------------
(* Database::select_topic_with_diversity *)

\* unwrap_or(0.3)
DefaultScore == (3 * Scale) \div 10

\* *score += 0.2
ExplorationBonus == (2 * Scale) \div 10

\* interaction_count < 3
ExplorationThreshold == 3

\* score.max(0.05)
MinScore == (5 * Scale) \div 100

\* A slip: the two most recent positions exchanged
PenaltyTenths_swapped(i) ==
  CASE i = 0 -> 3
    [] i = 1 -> 1
    [] i = 2 -> 6
    [] i = 3 -> 8
    [] i = 4 -> 9
    [] OTHER -> 10

\* The penalty of position i (from 0) of the recent list, in tenths
PenaltyTenths(i) ==
  CASE i = 0 -> 1
    [] i = 1 -> 3
    [] i = 2 -> 6
    [] i = 3 -> 8
    [] i = 4 -> 9
    [] OTHER -> 10

BaseScore(topic, preferences) ==
  IF topic \in DOMAIN preferences THEN preferences[topic] ELSE DefaultScore

\* The inner loop over recent_topics.iter().enumerate(), from position i on
RECURSIVE ApplyPenalties(_, _, _, _)
ApplyPenalties(topic, recent_topics, i, score) ==
  IF i >= Len(recent_topics) THEN score
  ELSE ApplyPenalties(topic, recent_topics, i + 1,
                      IF topic = recent_topics[i + 1]
                      THEN (score \div 10) * PenaltyTenths(i)
                      ELSE score)

\* A slip: the bonus up to and including three interactions
AddBonus_inclusive(score, count_result) ==
  IF unwrap_or(count_result, 0) <= ExplorationThreshold THEN score + ExplorationBonus ELSE score

\* The score of one topic after the bonus
AddBonus(score, count_result) ==
  IF unwrap_or(count_result, 0) < ExplorationThreshold THEN score + ExplorationBonus ELSE score

\* A slip: no floor
ClampScore_none(score) == score

\* The score of one topic after the floor
ClampScore(score) == Max(score, MinScore)

\* One iteration of the loop over topic_scores.iter_mut()
TopicScore(topic, preferences, recent_topics, count_result) ==
  ClampScore(AddBonus(ApplyPenalties(topic, recent_topics, 0, BaseScore(topic, preferences)),
                      count_result))

\* topic_scores as weighted_random_selection receives it; count_fails is the
\* set of topics whose count query fails
TopicScores(c, ints, preferences, recent_topics, count_fails) ==
  [t \in Topic |-> TopicScore(t, preferences, recent_topics,
                              get_topic_interaction_count(c, ints, t, t \in count_fails))]

---------------------------------------------------------------------------
(* Database::weighted_random_selection *)

\* topic_scores.values().sum() in the map's iteration order, exactly
ExactTotal(order, topic_scores) == SumSeq([i \in 1..Len(order) |-> topic_scores[order[i]]])

\* The running sums after each key of the iteration order
Cumulative(order, topic_scores, k) == SumSeq([i \in 1..k |-> topic_scores[order[i]]])

\* The for loop: the first key at which random_point, less the weights so
\* far, is <= 0; "" when the loop ends without returning
\* A slip: < instead of <=
LoopReturns_strict(random_point) == random_point < 0

\* Line 163: if random_point <= 0.0
LoopReturns(random_point) == random_point <= 0

RECURSIVE SubtractLoop(_, _, _, _)
SubtractLoop(order, topic_scores, i, random_point) ==
  IF i > Len(order) THEN ""
  ELSE LET rest == random_point - topic_scores[order[i]] IN
       IF LoopReturns(rest) THEN order[i]
       ELSE SubtractLoop(order, topic_scores, i + 1, rest)

\* The whole function: the key the loop returns, or else topics[random_index]
weighted_random_selection(order, topic_scores, random_point, random_index) ==
  LET hit == SubtractLoop(order, topic_scores, 1, random_point) IN
  IF hit # "" THEN [topic |-> hit, fallback |-> FALSE]
  ELSE [topic |-> Topic_all[random_index], fallback |-> TRUE]

\* rng.gen::<f64>() * total_weight lies in [0, total_weight), where
\* total_weight is the f64 sum: the exact sum up to a rounding error `err`.
\* The loop's result is constant between two running sums, so the points next
\* to each running sum, and both ends, stand for every draw.
DrawPoints(order, topic_scores, err) ==
  LET total_weight == ExactTotal(order, topic_scores) + err
      marks == {0, total_weight - 1} \cup
               UNION {{Cumulative(order, topic_scores, k) - 1,
                       Cumulative(order, topic_scores, k),
                       Cumulative(order, topic_scores, k) + 1} : k \in 1..Len(order)}
  IN {p \in marks : 0 <= p /\ p < total_weight}

\* The rounding errors the f64 sum and subtractions may leave, in units of 1/Scale
RoundingErrors == (0 - RoundErr)..RoundErr

\* rng.gen_range(0..topics.len()), drawn only when the loop has not returned
RandomIndexes(order, topic_scores, random_point) ==
  IF SubtractLoop(order, topic_scores, 1, random_point) = "" THEN 1..Len(Topic_all) ELSE {1}

\* Everything a call can return for a given map: over the iteration orders
\* of the HashMap, the rounding errors and the draws
Selections(topic_scores) ==
  UNION {UNION {{weighted_random_selection(order, topic_scores, random_point, random_index) :
                   random_index \in RandomIndexes(order, topic_scores, random_point)} :
                random_point \in UNION {DrawPoints(order, topic_scores, err) : err \in RoundingErrors}} :
         order \in Orders(DOMAIN topic_scores)}

---------------------------------------------------------------------------
(* Database::get_random_content, get_random_content_by_topic *)

\* row_to_content_unit: the topic column must decode
row_to_content_unit(row) ==
  LET d == from_str(Topic, row.topic) IN
  IF d.ok THEN Ok(Some(row.id, d.val)) ELSE Err

\* A slip: the first row instead of a random one
RandomRows_first(c) == {c[k] : k \in {j \in 1..Len(c) : j = 1}}

\* SELECT ... FROM content ORDER BY RANDOM() LIMIT 1: the rows it may yield
RandomRows(c) == {c[k] : k \in 1..Len(c)}

\* A slip: a topic without content falls back on a row of any topic
RandomRowsByTopic_fallback(c, topic) ==
  IF \E k \in 1..Len(c) : c[k].topic = to_string(topic)
  THEN {c[k] : k \in {j \in 1..Len(c) : c[j].topic = to_string(topic)}}
  ELSE {c[k] : k \in 1..Len(c)}

\* SELECT ... FROM content WHERE topic = ?1 ORDER BY RANDOM() LIMIT 1
RandomRowsByTopic(c, topic) == {c[k] : k \in {j \in 1..Len(c) : c[j].topic = to_string(topic)}}

\* query_row(..).optional(): no row is Ok(None); `pick` is the row drawn
query_row_optional(rows, pick, fails) ==
  IF fails THEN Err
  ELSE IF rows = {} THEN Ok(None)
  ELSE row_to_content_unit(pick)

get_random_content(c, pick, fails) == query_row_optional(RandomRows(c), pick, fails)

get_random_content_by_topic(c, topic, pick, fails) ==
  query_row_optional(RandomRowsByTopic(c, topic), pick, fails)

\* The rows a draw can name: any row of the result set (a placeholder when
\* the set is empty and nothing is drawn)
Picks(rows) == IF rows = {} THEN {ContentRow(0, "")} ELSE rows

---------------------------------------------------------------------------
(* The state: the two tables, the wall clock, and what the last call did *)

\* What a call leaves behind: its result and, for a selection, what it read
\* and computed on the way
NoCall ==
  [op |-> "none", result |-> "ok", unit |-> None, path |-> "", topic |-> "",
   fallback |-> FALSE, failed |-> {}, undecodable |-> 0, skipped |-> 0,
   preferences |-> <<>>, recent_topics |-> <<>>, count_fails |-> {},
   topic_scores |-> <<>>]

Called(op) == [NoCall EXCEPT !.op = op]

\* No front end is running
NoApp == [front |-> "none"]

\* No content unit is being built
NoUnit == [stage |-> "none"]

\* Database::new on a fresh file: both tables empty
Init ==
  /\ content = <<>>
  /\ interactions = <<>>
  /\ clock = 1
  /\ last = NoCall
  /\ app = NoApp
  /\ unit = NoUnit

\* A slip: the INSERT takes the place of the rows stored before
InsertRow_replace(topic_str, fails) ==
  /\ Len(content) < MaxContent
  /\ IF fails
     THEN /\ content' = content
          /\ last' = [Called("insert_content") EXCEPT !.result = "err", !.failed = {"insert"}]
     ELSE /\ content' = <<ContentRow(Len(content) + 1, topic_str)>>
          /\ last' = [Called("insert_content") EXCEPT
                        !.unit = Some(Len(content) + 1, topic_str)]
  /\ UNCHANGED <<interactions, clock>>
  /\ UNCHANGED <<app, unit>>

\* Database::insert_content: one row, its id from AUTOINCREMENT, written back
\* to the unit; a failed INSERT changes nothing
InsertRow(topic_str, fails) ==
  /\ Len(content) < MaxContent
  /\ IF fails
     THEN /\ content' = content
          /\ last' = [Called("insert_content") EXCEPT !.result = "err", !.failed = {"insert"}]
     ELSE /\ content' = Append(content, ContentRow(Len(content) + 1, topic_str))
          /\ last' = [Called("insert_content") EXCEPT
                        !.unit = Some(Len(content) + 1, topic_str)]
  /\ UNCHANGED <<interactions, clock>>
  /\ UNCHANGED <<app, unit>>

\* insert_content of the desktop build
InsertContent == \E topic \in Topic, fails \in BOOLEAN : InsertRow(to_string(topic), fails)

\* insert_content of the library build (fetch_data) on the same file
LibInsertContent == \E topic \in LibTopic, fails \in BOOLEAN : InsertRow(to_string(topic), fails)

\* UserInteraction::fully_read / skipped
UserInteraction(content_id, fully_read, now) ==
  InteractionRow(content_id, IF fully_read THEN "fully_read" ELSE "skipped", now)

\* Database::record_interaction from the record_interaction command: the
\* content id is the caller's.  An id with no content row is refused when the
\* SQLite build enforces foreign keys and stored when it does not.  The clock
\* is read by Utc::now(); only the order of the stored timestamps is kept.
RecordInteraction ==
  \E content_id \in 1..(Len(content) + 1), fully_read \in BOOLEAN, fails \in BOOLEAN,
     foreign_keys \in BOOLEAN :
    /\ Len(interactions) < MaxInteractions
    /\ LET dangling == ~(\E k \in 1..Len(content) : content[k].id = content_id)
           refused == fails \/ (dangling /\ foreign_keys)
       IN IF refused
          THEN /\ interactions' = interactions
               /\ clock' = clock
               /\ last' = [Called("record_interaction") EXCEPT
                             !.result = "err", !.failed = {"insert"}]
          ELSE /\ interactions' = Append(interactions, UserInteraction(content_id, fully_read, clock))
               /\ clock' = clock + 1
               /\ last' = Called("record_interaction")
    /\ UNCHANGED content
  /\ UNCHANGED <<app, unit>>

---------------------------------------------------------------------------
(* Database::get_weighted_random_content of the desktop build *)

\* The query that fails during a call, if one does
Faults == {"none", "prefs", "recent", "count", "content"}

\* How many rows of a result set carry a topic string that does not decode
Undecodable(strs) == Cardinality({k \in 1..Len(strs) : ~from_str(Topic, strs[k]).ok})

\* What the call leaves behind when the content query has answered
ContentOutcome(so_far, r, fails) ==
  [so_far EXCEPT !.result = IF ~r.ok THEN "err" ELSE IF r.val.some THEN "ok" ELSE "none",
                 !.unit = IF r.ok THEN r.val ELSE None,
                 !.failed = IF fails THEN @ \cup {"content"} ELSE @,
                 !.undecodable = IF ~r.ok /\ ~fails THEN @ + 1 ELSE @]

\* Lines 98-100: no preferences, so any row of the content table
UniformPath(so_far, fault) ==
  \E pick \in Picks(RandomRows(content)) :
    last' = ContentOutcome([so_far EXCEPT !.path = "uniform"],
                           get_random_content(content, pick, fault = "content"),
                           fault = "content")

\* Lines 103-105: the scores, the weighted draw, a row of the drawn topic
WeightedPath(so_far, fault) ==
  \E count_fails \in (IF fault = "count" THEN {{t} : t \in Topic} ELSE {{}}) :
    LET topic_scores == TopicScores(content, interactions, so_far.preferences,
                                    so_far.recent_topics, count_fails)
    IN \E smart \in Selections(topic_scores) :
       \E pick \in Picks(RandomRowsByTopic(content, smart.topic)) :
         last' = ContentOutcome(
                   [so_far EXCEPT !.path = "weighted", !.topic = smart.topic,
                                  !.fallback = smart.fallback,
                                  !.topic_scores = topic_scores,
                                  !.count_fails = count_fails,
                                  !.failed = IF fault = "count" THEN {"count"} ELSE @],
                   get_random_content_by_topic(content, smart.topic, pick, fault = "content"),
                   fault = "content")

\* Line 94: the preferences query; `?` returns its error
ReadPreferences(call, fault) ==
  LET prefs == get_topic_preferences(content, interactions, fault = "prefs")
  IN IF ~prefs.ok
     THEN [call EXCEPT !.result = "err",
                       !.failed = IF fault = "prefs" THEN {"prefs"} ELSE {},
                       !.undecodable = IF fault = "prefs" THEN 0 ELSE 1]
     ELSE [call EXCEPT !.path = "preferences", !.preferences = prefs.val]

\* A slip: a map of one topic counts as no history
is_empty_or_single(topic_weights) == Cardinality(DOMAIN topic_weights) <= 1

\* topic_weights.is_empty()
is_empty(topic_weights) == DOMAIN topic_weights = {}

\* Lines 95-105: the recent topics query and the rest of the call, on the
\* preferences already read
SelectWithPreferences(call, fault) ==
  \E o \in OrderByTimestampDesc(interactions, Joined(content, interactions)) :
    LET recent == get_recent_topics(content, interactions, RecentLimit, o,
                                    fault = "recent")
        rows == RecentRows(content, interactions, RecentLimit, o)
    IN IF ~recent.ok
       THEN last' = [call EXCEPT !.result = "err", !.path = "", !.failed = {"recent"}]
       ELSE LET so_far == [call EXCEPT !.recent_topics = recent.val,
                                       !.undecodable = Undecodable(rows),
                                       !.skipped = Len(rows) - Len(recent.val)]
            IN IF is_empty(call.preferences)
               THEN UniformPath(so_far, fault)
               ELSE WeightedPath(so_far, fault)

\* A slip: the selection records the unit it returns as read
GetWeightedRandomContent_recording ==
  /\ \E fault \in Faults :
       LET call == ReadPreferences(Called("get_weighted_random_content"), fault)
       IN IF call.result = "err"
          THEN last' = call
          ELSE SelectWithPreferences(call, fault)
  /\ interactions' = IF last'.result = "ok" /\ last'.unit.some /\ Len(interactions) < MaxInteractions
                     THEN Append(interactions, UserInteraction(last'.unit.id, TRUE, clock))
                     ELSE interactions
  /\ UNCHANGED <<content, clock>>
  /\ UNCHANGED <<app, unit>>

\* Database::get_weighted_random_content, lines 92-106
GetWeightedRandomContent ==
  /\ \E fault \in Faults :
       LET call == ReadPreferences(Called("get_weighted_random_content"), fault)
       IN IF call.result = "err"
          THEN last' = call
          ELSE SelectWithPreferences(call, fault)
  /\ UNCHANGED <<content, interactions, clock>>
  /\ UNCHANGED <<app, unit>>

---------------------------------------------------------------------------
(* The store and its callers *)

Next ==
  \/ InsertContent
  \/ LibInsertContent
  \/ RecordInteraction
  \/ GetWeightedRandomContent

Spec == Init /\ [][Next]_vars

---------------------------------------------------------------------------
(* The store as the desktop build alone writes it *)

NextDesk ==
  \/ InsertContent
  \/ RecordInteraction
  \/ GetWeightedRandomContent

SpecDesk == Init /\ [][NextDesk]_vars

---------------------------------------------------------------------------
(* Two processes on one database file.  The desktop application and the
   library front ends open the same tellme_data/tellme.db; the desktop call
   runs its queries one after another with no transaction around them, so
   a write of the other process can land between two of them. *)

\* The desktop call has read the preferences and not yet the recent topics
Between == last.op = "get_weighted_random_content" /\ last.path = "preferences"

\* The desktop commands wait for each other on the AppState mutex
DesktopInsertContent == ~Between /\ InsertContent

DesktopRecordInteraction == ~Between /\ RecordInteraction

\* Line 94 of the desktop call
SelectionReadsPreferences ==
  /\ ~Between
  /\ \E fault \in {"none", "prefs"} :
       last' = ReadPreferences(Called("get_weighted_random_content"), fault)
  /\ UNCHANGED <<content, interactions, clock>>
  /\ UNCHANGED <<app, unit>>

\* Lines 95-105 of the desktop call
SelectionContinues ==
  /\ Between
  /\ \E fault \in Faults \ {"prefs"} : SelectWithPreferences(last, fault)
  /\ UNCHANGED <<content, interactions, clock>>
  /\ UNCHANGED <<app, unit>>

\* fetch_data of the library build stores a unit of one of its own topics
OtherInsertContent ==
  /\ Len(content) < MaxContent
  /\ \E topic \in LibTopic :
       content' = Append(content, ContentRow(Len(content) + 1, to_string(topic)))
  /\ UNCHANGED <<interactions, clock, last>>
  /\ UNCHANGED <<app, unit>>

\* A library front end records an interaction on a unit it has shown
OtherRecordInteraction ==
  /\ Len(interactions) < MaxInteractions
  /\ \E k \in 1..Len(content), fully_read \in BOOLEAN :
       interactions' = Append(interactions, UserInteraction(content[k].id, fully_read, clock))
  /\ clock' = clock + 1
  /\ UNCHANGED <<content, last>>
  /\ UNCHANGED <<app, unit>>

NextRace ==
  \/ DesktopInsertContent
  \/ DesktopRecordInteraction
  \/ SelectionReadsPreferences
  \/ SelectionContinues
  \/ OtherInsertContent
  \/ OtherRecordInteraction

SpecRace == Init /\ [][NextRace]_vars

---------------------------------------------------------------------------
(* weighted_random_selection on the maps select_topic_with_diversity builds *)

\* Weights a topic can get: the floor, the default, the default with the
\* bonus, a full preference, a full preference with the bonus
Weights == {MinScore, DefaultScore, DefaultScore + ExplorationBonus, Scale,
            Scale + ExplorationBonus}

\* topic_scores has a key for every topic of Topic::all()
WeightMaps == [Topic -> Weights]

\* A call of the function: the map it is given and, once it has run, the
\* iteration order of the map, the draw and what was returned
NoDraw(topic_scores) ==
  [op |-> "none", topic_scores |-> topic_scores, order |-> <<>>, random_point |-> 0,
   topic |-> "", fallback |-> FALSE]

InitWrs ==
  /\ content = <<>>
  /\ interactions = <<>>
  /\ clock = 1
  /\ \E topic_scores \in WeightMaps : last = NoDraw(topic_scores)
  /\ app = NoApp
  /\ unit = NoUnit

WeightedRandomSelection ==
  /\ last.op = "none"
  /\ \E order \in Orders(DOMAIN last.topic_scores), err \in RoundingErrors :
       \E random_point \in DrawPoints(order, last.topic_scores, err) :
         \E random_index \in RandomIndexes(order, last.topic_scores, random_point) :
           LET smart == weighted_random_selection(order, last.topic_scores, random_point,
                                                  random_index)
           IN last' = [last EXCEPT !.op = "weighted_random_selection", !.order = order,
                                   !.random_point = random_point, !.topic = smart.topic,
                                   !.fallback = smart.fallback]
  /\ UNCHANGED <<content, interactions, clock>>
  /\ UNCHANGED <<app, unit>>

NextWrs == WeightedRandomSelection

SpecWrs == InitWrs /\ [][NextWrs]_vars

---------------------------------------------------------------------------
(* The Database of the library build (src/database.rs), which the terminal,
   egui and web front ends use *)

\* get_topic_preferences against the library registry
lib_get_topic_preferences(c, ints, fails) ==
  IF fails THEN Err
  ELSE LET rows == PreferenceRows(c, ints) IN
       IF \E r \in rows : ~from_str(LibTopic, r.topic).ok THEN Err
       ELSE LET decoded == {from_str(LibTopic, r.topic).val : r \in rows}
                count(t, type) == SumCount({r \in rows : /\ from_str(LibTopic, r.topic).val = t
                                                          /\ r.interaction_type = type})
            IN Ok([t \in {x \in decoded : count(x, "fully_read") + count(x, "skipped") > 0} |->
                     PreferenceScore(count(t, "fully_read"), count(t, "skipped"))])

\* Lines 102-110: the first topic in iteration order whose score is above
\* every score before it; Topic::Facts when no score is above 0.0
RECURSIVE lib_best_topic(_, _, _, _, _)
lib_best_topic(topic_weights, order, i, best_topic, best_score) ==
  IF i > Len(order) THEN best_topic
  ELSE IF topic_weights[order[i]] > best_score
       THEN lib_best_topic(topic_weights, order, i + 1, order[i], topic_weights[order[i]])
       ELSE lib_best_topic(topic_weights, order, i + 1, best_topic, best_score)

\* A slip: the first topic of the iteration is taken
lib_best_first(topic_weights, order) == order[1]

\* Lines 102-110 from their first statement on
lib_best(topic_weights, order) ==
  lib_best_topic(topic_weights, order, 1, LibTopic_all[1], 0)

\* row_to_content_unit against the library registry
lib_row_to_content_unit(row) ==
  LET d == from_str(LibTopic, row.topic) IN
  IF d.ok THEN Ok(Some(row.id, d.val)) ELSE Err

\* query_row(..).optional() over a set of rows, `pick` being the row drawn
lib_query_row_optional(rows, pick, fails) ==
  IF fails THEN Err
  ELSE IF rows = {} THEN Ok(None)
  ELSE lib_row_to_content_unit(pick)

\* Every result get_weighted_random_content of the library build can give
\* on the tables c and ints: over the failing query, the iteration order of
\* the preference map and the row ORDER BY RANDOM() draws
lib_get_weighted_random_content(c, ints) ==
  UNION {
    LET topic_weights == lib_get_topic_preferences(c, ints, fault = "prefs") IN
    IF ~topic_weights.ok THEN {Err}
    ELSE IF DOMAIN topic_weights.val = {}
    THEN {lib_query_row_optional(RandomRows(c), pick, fault = "content") :
            pick \in Picks(RandomRows(c))}
    ELSE UNION {
           LET best_topic == lib_best(topic_weights.val, order)
               rows == RandomRowsByTopic(c, best_topic)
           IN {lib_query_row_optional(rows, pick, fault = "content") : pick \in Picks(rows)} :
           order \in Orders(DOMAIN topic_weights.val)} :
    fault \in {"none", "prefs", "content"}}

---------------------------------------------------------------------------
(* The terminal front end: App (ui.rs), handle_events and run_app (main.rs) *)

\* The length of the body of a unit read from the store.  The content table
\* of the model has no body column, so a read yields a unit of any length.
BodyLens == 0..MaxBody

\* Option<ContentUnit> as a front end holds it
NoContent == [some |-> FALSE, id |-> 0, topic |-> "", len |-> 0]

Loaded(u, len) == [some |-> TRUE, id |-> u.id, topic |-> u.topic, len |-> len]

\* reading_time >= 3
ReadingThreshold == 3

\* chars_per_update
CharsPerUpdate == 2

\* App::new.  `recorded` counts the interactions made for the unit on
\* display and handed to record_interaction; `ended` is that count for the
\* last viewing that ended (-1: none)
App_new ==
  [front |-> "tui", current_content |-> NoContent, displayed_chars |-> 0,
   fully_displayed |-> FALSE, seconds |-> 0, should_quit |-> FALSE,
   status_message |-> "Loading content...", recorded |-> 0, ended |-> 0 - 1]

\* App::set_content
set_content(a, content_unit) ==
  [a EXCEPT !.current_content = content_unit, !.displayed_chars = 0, !.fully_displayed = FALSE,
            !.seconds = 0, !.status_message = ""]

\* A slip: the step is not cut to the end of the body
update_typewriter_unclipped(a) ==
  IF a.current_content.some /\ ~a.fully_displayed
  THEN IF a.displayed_chars < a.current_content.len
       THEN [a EXCEPT !.displayed_chars = @ + CharsPerUpdate]
       ELSE [a EXCEPT !.fully_displayed = TRUE]
  ELSE a

\* A slip: one character is revealed per call
update_typewriter_slow(a) ==
  IF a.current_content.some /\ ~a.fully_displayed
  THEN IF a.displayed_chars < a.current_content.len
       THEN [a EXCEPT !.displayed_chars = Min(@ + 1, a.current_content.len)]
       ELSE [a EXCEPT !.fully_displayed = TRUE]
  ELSE a

\* App::update_typewriter
update_typewriter(a) ==
  IF a.current_content.some /\ ~a.fully_displayed
  THEN IF a.displayed_chars < a.current_content.len
       THEN [a EXCEPT !.displayed_chars = Min(@ + CharsPerUpdate, a.current_content.len)]
       ELSE [a EXCEPT !.fully_displayed = TRUE]
  ELSE a

\* App::skip_typewriter
skip_typewriter(a) ==
  IF a.current_content.some
  THEN [a EXCEPT !.displayed_chars = a.current_content.len, !.fully_displayed = TRUE]
  ELSE a

\* App::has_content
has_content(a) == a.current_content.some

\* App::set_status
set_status(a, message) == [a EXCEPT !.status_message = message]

\* What event::poll / event::read hand to handle_events in one iteration
Keys == {"none", "quit", "next", "other"}

\* A slip: the key asks for the next unit whether or not the display is
\* complete
handle_events_clears(a, key) ==
  IF key = "quit" THEN [a EXCEPT !.should_quit = TRUE]
  ELSE IF key = "next" /\ has_content(a)
       THEN [a EXCEPT !.current_content = NoContent]
       ELSE a

\* handle_events
handle_events(a, key) ==
  IF key = "quit" THEN [a EXCEPT !.should_quit = TRUE]
  ELSE IF key = "next" /\ has_content(a)
       THEN IF ~a.fully_displayed THEN skip_typewriter(a)
            ELSE [a EXCEPT !.current_content = NoContent]
       ELSE a

\* A slip: the reading time is left out of the test
ViewingInteraction_displayed(a, now) ==
  UserInteraction(a.current_content.id, a.fully_displayed, now)

\* The interaction run_app builds for a unit (lines 91-99 and 133-139)
ViewingInteraction(a, now) ==
  UserInteraction(a.current_content.id,
                  a.fully_displayed /\ a.seconds >= ReadingThreshold, now)

\* db.record_interaction(&interaction) of the library build with its result
\* only logged: the row is stored unless the INSERT fails
StoreViewing(interaction, fails) ==
  IF fails
  THEN UNCHANGED <<interactions, clock>>
  ELSE /\ interactions' = Append(interactions, interaction)
       /\ clock' = clock + 1

\* The match on db.get_weighted_random_content() of run_app (lines 109-119)
LoadInto(a, r, len) ==
  IF ~r.ok THEN set_status(a, "Error loading content")
  ELSE IF ~r.val.some THEN set_status(a, "No more content available.")
  ELSE set_content(a, Loaded(r.val, len))

\* The viewing of the unit on display ends with this step, which has made
\* `made` interactions for it
ViewingEnds(a, before, made) ==
  [a EXCEPT !.ended = before.recorded + made, !.recorded = 0]

\* The unit on display stays
ViewingGoesOn(a, before, made) == [a EXCEPT !.recorded = before.recorded + made]

\* Database::get_content_count
get_content_count(c, fails) == IF fails THEN Err ELSE Ok(Len(c))

\* main up to run_app: it returns at once on an empty store or on an error
\* of the count or of the first load; otherwise App::new and the first load
TuiStart ==
  /\ app.front = "none"
  /\ \E fails \in BOOLEAN :
       LET content_count == get_content_count(content, fails) IN
       IF ~content_count.ok
       THEN app' = [App_new EXCEPT !.front = "exited", !.status_message = "Error"]
       ELSE IF content_count.val = 0
       THEN app' = [App_new EXCEPT !.front = "exited",
                                   !.status_message = "No content found in database!"]
       ELSE \E r \in lib_get_weighted_random_content(content, interactions),
               len \in BodyLens :
              app' = IF ~r.ok
                     THEN [App_new EXCEPT !.front = "exited", !.status_message = "Error"]
                     ELSE IF r.val.some
                     THEN set_content(App_new, Loaded(r.val, len))
                     ELSE set_status(App_new,
                                     "No content available. Please run fetch_data first.")
  /\ UNCHANGED <<content, interactions, clock, last, unit>>

\* start_time.elapsed().as_secs() grows; 3 stands for 3 or more
TimePasses ==
  /\ app.front = "tui"
  /\ app.seconds < ReadingThreshold
  /\ app' = [app EXCEPT !.seconds = @ + 1]
  /\ UNCHANGED <<content, interactions, clock, last, unit>>

\* One iteration of the loop of run_app, and what follows the loop when
\* the iteration leaves it.  `tick` is whether update_interval has elapsed.
RunAppIteration ==
  /\ app.front = "tui"
  /\ Len(interactions) < MaxInteractions
  /\ \E key \in Keys, tick \in BOOLEAN, fails \in BOOLEAN :
       LET a1 == handle_events(app, key) IN
       IF a1.should_quit
       THEN /\ IF a1.current_content.some
               THEN StoreViewing(ViewingInteraction(a1, clock), fails)
               ELSE UNCHANGED <<interactions, clock>>
            /\ app' = IF a1.current_content.some
                      THEN ViewingEnds([a1 EXCEPT !.front = "exited"], app, 1)
                      ELSE [a1 EXCEPT !.front = "exited"]
       ELSE LET a2 == IF tick THEN update_typewriter(a1) ELSE a1 IN
            IF ~has_content(a2) /\ ~a2.should_quit
            THEN /\ IF a2.current_content.some
                    THEN StoreViewing(ViewingInteraction(a2, clock), fails)
                    ELSE UNCHANGED <<interactions, clock>>
                 /\ \E r \in lib_get_weighted_random_content(content, interactions'),
                       len \in BodyLens :
                      LET a3 == LoadInto(set_status(a2, "Loading new content..."), r, len)
                      IN app' = IF app.current_content.some
                                THEN ViewingEnds(a3, app, IF a2.current_content.some THEN 1 ELSE 0)
                                ELSE a3
            ELSE /\ UNCHANGED <<interactions, clock>>
                 /\ app' = a2
  /\ UNCHANGED <<content, last, unit>>

---------------------------------------------------------------------------
(* App under its three methods (ui.rs, lines 56-87) *)

\* The units set_content is given: bodies of up to MaxLength bytes
Units == {Loaded(Some(id, topic), len) : id \in 1..MaxContent, topic \in LibTopic,
                                         len \in 0..MaxLength}

\* The most calls of update_typewriter counted for one unit
MaxUpdates == (MaxLength + 1) \div CharsPerUpdate + 2

\* App::new; `updates` counts the calls of update_typewriter since the last
\* set_content, up to MaxUpdates
InitApp ==
  /\ content = <<>>
  /\ interactions = <<>>
  /\ clock = 1
  /\ last = NoCall
  /\ unit = NoUnit
  /\ app = [updates |-> 0] @@ App_new

\* app.set_content(content)
SetContent ==
  /\ \E content_unit \in Units : app' = [set_content(app, content_unit) EXCEPT !.updates = 0]
  /\ UNCHANGED <<content, interactions, clock, last, unit>>

\* app.update_typewriter()
UpdateTypewriter ==
  /\ app' = [update_typewriter(app) EXCEPT !.updates = Min(@ + 1, MaxUpdates)]
  /\ UNCHANGED <<content, interactions, clock, last, unit>>

\* app.skip_typewriter()
SkipTypewriter ==
  /\ app' = skip_typewriter(app)
  /\ UNCHANGED <<content, interactions, clock, last, unit>>

NextApp ==
  \/ SetContent
  \/ UpdateTypewriter
  \/ SkipTypewriter

SpecApp == InitApp /\ [][NextApp]_vars

---------------------------------------------------------------------------
(* The egui front end (bin/tellme_gui.rs) *)

\* The fields of TellMeApp before its first load; `loaded` is what the
\* last get_weighted_random_content returned
TellMeApp_new ==
  [front |-> "gui", current_content |-> NoContent, recorded |-> 0, ended |-> 0 - 1,
   loaded |-> ""]

\* Ok(Some(_)), Ok(None) or Err(_)
Outcome(r) == IF ~r.ok THEN "err" ELSE IF r.val.some THEN "ok" ELSE "none"

\* What update draws: the unit on display or the "No content available" label
GuiShows(a) ==
  IF a.current_content.some
  THEN [label |-> "content", id |-> a.current_content.id]
  ELSE [label |-> "No content available", id |-> 0]

\* TellMeApp::load_next_content
load_next_content(a) ==
  \E fails \in BOOLEAN :
    /\ IF a.current_content.some
       THEN StoreViewing(UserInteraction(a.current_content.id, TRUE, clock), fails)
       ELSE UNCHANGED <<interactions, clock>>
    /\ \E r \in lib_get_weighted_random_content(content, interactions'), len \in BodyLens :
         LET b == [a EXCEPT !.loaded = Outcome(r)] IN
         app' = IF r.ok /\ r.val.some
                THEN IF a.current_content.some
                     THEN ViewingEnds([b EXCEPT !.current_content = Loaded(r.val, len)], a, 1)
                     ELSE [b EXCEPT !.current_content = Loaded(r.val, len)]
                ELSE ViewingGoesOn(b, a, IF a.current_content.some THEN 1 ELSE 0)

\* TellMeApp::new
GuiStart ==
  /\ app.front = "none"
  /\ load_next_content(TellMeApp_new)
  /\ UNCHANGED <<content, last, unit>>

\* The "Next Story" button, drawn while a unit is on display
GuiNextStory ==
  /\ app.front = "gui"
  /\ app.current_content.some
  /\ Len(interactions) < MaxInteractions
  /\ app.recorded < MaxInteractions
  /\ load_next_content(app)
  /\ UNCHANGED <<content, last, unit>>

\* The "Quit" button or the window's close button: the viewport closes
GuiQuit ==
  /\ app.front = "gui"
  /\ app' = IF app.current_content.some
            THEN [app EXCEPT !.front = "exited", !.ended = app.recorded, !.recorded = 0]
            ELSE [app EXCEPT !.front = "exited"]
  /\ UNCHANGED <<content, interactions, clock, last, unit>>

---------------------------------------------------------------------------
(* A front end of the library build on a filled store *)

\* The content tables fetch_data and the desktop build can leave behind
StoredContents ==
  UNION {{[k \in 1..n |-> ContentRow(k, f[k])] : f \in [1..n -> TopicStrings]} :
           n \in 0..MaxContent}

InitFront ==
  /\ content \in StoredContents
  /\ interactions = <<>>
  /\ clock = 1
  /\ last = NoCall
  /\ app = NoApp
  /\ unit = NoUnit

NextFront ==
  \/ TuiStart
  \/ TimePasses
  \/ RunAppIteration
  \/ GuiStart
  \/ GuiNextStory
  \/ GuiQuit

SpecFront == InitFront /\ [][NextFront]_vars

---------------------------------------------------------------------------
(* A selection of the library build on a store with a history *)

\* The histories the front ends of the library build leave behind: every
\* interaction is on a stored unit, the timestamps grow
Histories(c) ==
  UNION {{[k \in 1..n |-> UserInteraction(c[f[k][1]].id, f[k][2], k)] :
            f \in [1..n -> (1..Len(c)) \X BOOLEAN]} : n \in 0..MaxInteractions}

InitLib ==
  /\ content \in StoredContents
  /\ interactions \in Histories(content)
  /\ clock = Len(interactions) + 1
  /\ last = NoCall
  /\ app = NoApp
  /\ unit = NoUnit

\* db.get_weighted_random_content() of the library build
LibGetWeightedRandomContent ==
  /\ \E r \in lib_get_weighted_random_content(content, interactions) :
       last' = [Called("lib_get_weighted_random_content") EXCEPT
                  !.result = Outcome(r),
                  !.unit = IF r.ok THEN r.val ELSE None]
  /\ UNCHANGED <<content, interactions, clock, app, unit>>

NextLib == LibGetWeightedRandomContent

SpecLib == InitLib /\ [][NextLib]_vars

---------------------------------------------------------------------------
(* The terminal front end started on a store with a history *)

\* The history leaves room for the one interaction the run records
InitTui ==
  /\ content \in StoredContents
  /\ interactions \in {h \in Histories(content) : Len(h) < MaxInteractions}
  /\ clock = Len(interactions) + 1
  /\ last = NoCall
  /\ app = NoApp
  /\ unit = NoUnit

NextTui ==
  \/ TuiStart
  \/ TimePasses
  \/ RunAppIteration

\* An iteration of the loop that puts a unit on display
RunAppLoads == RunAppIteration /\ app'.current_content.some

SpecTui == InitTui /\ [][NextTui]_vars

\* The process starts, the loop of run_app keeps iterating until it is left,
\* and a load that can succeed again and again does succeed
SpecTuiLive ==
  /\ SpecTui
  /\ WF_vars(TuiStart)
  /\ WF_vars(RunAppIteration)
  /\ SF_vars(RunAppLoads)

---------------------------------------------------------------------------
(* ContentUnit (content.rs): new, is_suitable_length, clean_content.  A body
   is a sequence of characters. *)

\* The characters of a body: a digit, which is also a word character, the
\* two brackets, a space and a line feed
Alphabet == {"1", "[", "]", " ", "\n"}

\* char::is_whitespace
is_whitespace(ch) == ch \in {" ", "\n"}

\* \d
is_digit(ch) == ch = "1"

\* All bodies of at most n characters
Texts(n) == UNION {[1..k -> Alphabet] : k \in 0..n}

\* str::split_whitespace().count(): the maximal runs of non-whitespace
split_whitespace_count(text) ==
  Cardinality({i \in 1..Len(text) : /\ ~is_whitespace(text[i])
                                    /\ (i = 1 \/ is_whitespace(text[i - 1]))})

\* The end of a match of \[\d+\] that starts at i, or 0 when none does
MatchEnd(text, i) ==
  IF text[i] # "[" THEN 0
  ELSE LET ends == {j \in (i + 2)..Len(text) :
                      /\ text[j] = "]"
                      /\ \A k \in (i + 1)..(j - 1) : is_digit(text[k])}
       IN IF ends = {} THEN 0 ELSE CHOOSE j \in ends : TRUE

\* Regex::replace_all(text, "") from position i on: the leftmost matches,
\* one after another, in one pass over the text.  A match holds one "[",
\* its first character, so no two matches overlap and a character is
\* dropped exactly when a match that starts at or before it reaches it.
replace_all(text, i) ==
  LET at == [p \in i..Len(text) |-> <<p, text[p]>>]
      numbered == [k \in 1..(Len(text) - i + 1) |-> at[k + i - 1]]
      kept(pair) == ~\E m \in i..pair[1] : text[m] = "[" /\ MatchEnd(text, m) >= pair[1]
      left == SelectSeq(numbered, kept)
  IN [k \in 1..Len(left) |-> left[k][2]]

\* str::lines(): the pieces between line feeds; a final line feed ends the
\* last line and starts none
RECURSIVE lines(_)
lines(text) ==
  IF text = <<>> THEN <<>>
  ELSE LET breaks == {i \in 1..Len(text) : text[i] = "\n"} IN
       IF breaks = {} THEN <<text>>
       ELSE LET b == CHOOSE i \in breaks : \A j \in breaks : i <= j
            IN <<SubSeq(text, 1, b - 1)>> \o lines(SubSeq(text, b + 1, Len(text)))

\* str::trim
trim(line) ==
  LET solid == {i \in 1..Len(line) : ~is_whitespace(line[i])} IN
  IF solid = {} THEN <<>>
  ELSE SubSeq(line, CHOOSE i \in solid : \A j \in solid : i <= j,
                    CHOOSE i \in solid : \A j \in solid : i >= j)

\* [..].join(sep)
RECURSIVE join(_, _)
join(pieces, sep) ==
  IF pieces = <<>> THEN <<>>
  ELSE IF Len(pieces) = 1 THEN pieces[1]
  ELSE pieces[1] \o sep \o join(Tail(pieces), sep)

\* Lines 463-468: trim every line, drop the empty ones, join with "\n\n"
normalize_lines(text) ==
  LET trimmed == [k \in 1..Len(lines(text)) |-> trim(lines(text)[k])]
      not_empty(line) == line # <<>>
  IN join(SelectSeq(trimmed, not_empty), <<"\n", "\n">>)

\* The body clean_content leaves
clean_text(text) == normalize_lines(replace_all(text, 1))

\* ContentUnit::new; `cleaned` counts the calls of clean_content and `once`
\* keeps the body the first of them left
ContentUnit_new(text) ==
  [stage |-> "new", id |-> 0, content |-> text, word_count |-> split_whitespace_count(text),
   cleaned |-> 0, once |-> <<>>, suitable |-> "unknown"]

\* ContentUnit::clean_content: the body is replaced, nothing else is
clean_content(u) ==
  [u EXCEPT !.content = clean_text(u.content), !.cleaned = @ + 1,
            !.once = IF u.cleaned = 0 THEN clean_text(u.content) ELSE @]

\* The bounds of is_suitable_length
MinWords == 30

MaxSuitableWords == 800

\* A slip: the lower bound left out of the range
is_suitable_length_exclusive(u) == u.word_count > MinWords /\ u.word_count <= MaxSuitableWords

\* ContentUnit::is_suitable_length
is_suitable_length(u) == u.word_count >= MinWords /\ u.word_count <= MaxSuitableWords

---------------------------------------------------------------------------
(* A content unit in the hands of the ingestion (bin/fetch_data.rs) *)

\* ContentUnit::new on any body
InitUnit ==
  /\ content = <<>>
  /\ interactions = <<>>
  /\ clock = 1
  /\ last = NoCall
  /\ app = NoApp
  /\ \E text \in Texts(MaxText) : unit = ContentUnit_new(text)

\* unit.clean_content(); process_article_content calls it once, a caller of
\* the public method may call it again
CleanContent ==
  /\ unit.stage \in {"new", "clean"}
  /\ unit.cleaned < 2
  /\ unit' = [clean_content(unit) EXCEPT !.stage = "clean"]
  /\ UNCHANGED <<content, interactions, clock, last, app>>

\* unit.is_suitable_length(), the answer kept
IsSuitableLength ==
  /\ unit.stage \in {"new", "clean"}
  /\ unit.suitable = "unknown"
  /\ unit' = [unit EXCEPT !.suitable = IF is_suitable_length(unit) THEN "yes" ELSE "no"]
  /\ UNCHANGED <<content, interactions, clock, last, app>>

NextUnit ==
  \/ CleanContent
  \/ IsSuitableLength

SpecUnit == InitUnit /\ [][NextUnit]_vars

\* A body of n one-character words, each followed by a space
Words(n) == [i \in 1..(2 * n) |-> IF i % 2 = 1 THEN "1" ELSE " "]

\* ContentUnit::new on bodies of up to MaxWords words
InitSuit ==
  /\ content = <<>>
  /\ interactions = <<>>
  /\ clock = 1
  /\ last = NoCall
  /\ app = NoApp
  /\ \E n \in 0..MaxWords : unit = ContentUnit_new(Words(n))

NextSuit == IsSuitableLength

SpecSuit == InitSuit /\ [][NextSuit]_vars

---------------------------------------------------------------------------
(* process_article_content (bin/fetch_data.rs).  An article body is made of
   paragraphs separated by an empty line.  Of the indicator words of the
   quality score one of each sign is kept, written as one character:
   "w" for "war" (+1), "k" for "king" (+1), "s" for "stub" (-3). *)

\* str::contains on a one-character indicator
contains(text, ch) == \E i \in 1..Len(text) : text[i] = ch

\* calculate_content_quality_score(content, title)
calculate_content_quality_score(text, title) ==
  LET combined == title \o <<" ">> \o text IN
    (IF Len(text) > 50 THEN 1 ELSE 0)
  + (IF contains(combined, "w") THEN 1 ELSE 0)
  + (IF contains(combined, "k") THEN 1 ELSE 0)
  - (IF contains(combined, "s") THEN 3 ELSE 0)

\* content.split("\n\n"): the pieces between the separators, left to right
RECURSIVE split_paragraphs(_)
split_paragraphs(text) ==
  LET seps == {i \in 1..(Len(text) - 1) : text[i] = "\n" /\ text[i + 1] = "\n"} IN
  IF seps = {} THEN <<text>>
  ELSE LET b == CHOOSE i \in seps : \A j \in seps : i <= j
       IN <<SubSeq(text, 1, b - 1)>> \o split_paragraphs(SubSeq(text, b + 2, Len(text)))

\* Lines 140-144: the trimmed pieces of more than 30 bytes
Sections(text) ==
  LET pieces == split_paragraphs(text)
      trimmed == [k \in 1..Len(pieces) |-> trim(pieces[k])]
      kept(piece) == piece # <<>> /\ Len(piece) > 30
  IN SelectSeq(trimmed, kept)

\* Lines 152-157: sections are appended while the unit is shorter than 400
\* bytes; the result is the index j reached and the unit's body
RECURSIVE Combine(_, _, _)
Combine(sections, j, unit_content) ==
  IF j < Len(sections) /\ Len(unit_content) < 400
  THEN Combine(sections, j + 1, unit_content \o <<"\n", "\n">> \o sections[j + 1])
  ELSE <<j, unit_content>>

\* The full unit of lines 124-137, cleaned
FullUnit(text) == clean_content(ContentUnit_new(text))

\* Lines 148-182: the loop over the sections from index i on
RECURSIVE SectionUnits(_, _, _)
SectionUnits(sections, i, title) ==
  IF i >= Len(sections) THEN <<>>
  ELSE LET combined == Combine(sections, i + 1, sections[i + 1])
           j == combined[1]
           unit_content == combined[2]
           content_unit == clean_content(ContentUnit_new(unit_content))
           next == IF j > i + 1 THEN j ELSE i + 1
       IN IF calculate_content_quality_score(unit_content, title) < -1
          THEN SectionUnits(sections, next, title)
          ELSE (IF is_suitable_length(content_unit) THEN <<content_unit>> ELSE <<>>)
               \o SectionUnits(sections, next, title)

\* process_article_content(topic, title, content, source_url)
process_article_content(title, text) ==
  IF calculate_content_quality_score(text, title) < 0 THEN <<>>
  ELSE IF Len(text) > 100 /\ Len(text) < 3000 /\ is_suitable_length(FullUnit(text))
  THEN <<FullUnit(text)>>
  ELSE SectionUnits(Sections(text), 0, title)

\* n words of w digits each, then the tokens of `tail`, one space between
\* two tokens
Paragraph(n, w, tail) ==
  join(<<[i \in 1..(n * (w + 1) - 1) |-> IF i % (w + 1) = 0 THEN " " ELSE "1"]>> \o tail,
       <<" ">>)

\* The paragraphs articles are made of: thirty words; twenty-nine words and
\* a citation; sixteen short words; fifteen short words and a citation; two
\* long words; more than half of the words a unit may have, without and
\* with engaging words; forty words and a boring one
Paragraphs ==
  {Paragraph(30, 3, <<>>), Paragraph(29, 3, <<<<"[", "1", "]">>>>),
   Paragraph(16, 1, <<>>), Paragraph(15, 1, <<<<"[", "1", "]">>>>),
   Paragraph(2, 60, <<>>),
   Paragraph(401, 1, <<>>), Paragraph(401, 1, <<<<"w">>, <<"k">>>>),
   Paragraph(40, 1, <<<<"s">>>>)}

\* The article bodies: up to MaxParagraphs paragraphs, an empty line between
Articles ==
  {join(ps, <<"\n", "\n">>) : ps \in UNION {[1..n -> Paragraphs] : n \in 1..MaxParagraphs}}

\* The titles: a plain one, an engaging one, a boring one
Titles == {<<"1">>, <<"w">>, <<"s">>}

\* An article has been fetched
InitArticle ==
  /\ content = <<>>
  /\ interactions = <<>>
  /\ clock = 1
  /\ last = NoCall
  /\ app = NoApp
  /\ \E title \in Titles, text \in Articles :
       unit = [stage |-> "article", title |-> title, content |-> text]

\* process_article_content on the article
ProcessArticleContent ==
  /\ unit.stage = "article"
  /\ unit' = [stage |-> "processed", title |-> unit.title, content |-> unit.content,
              units |-> process_article_content(unit.title, unit.content)]
  /\ UNCHANGED <<content, interactions, clock, last, app>>

NextArticle == ProcessArticleContent

SpecArticle == InitArticle /\ [][NextArticle]_vars

---------------------------------------------------------------------------
(* The request handlers: the Tauri commands of the desktop build
   (src-tauri/src/main.rs) and the axum handlers of the web server
   (bin/tellme_web.rs).  Both run requests on several threads. *)

\* The requests that can be in flight
Requests == 1..NumRequests

Commands == {"get_random_content", "record_interaction"}

NoResponse == [status |-> "", body |-> ""]

Idle == [pc |-> "idle", command |-> "", response |-> NoResponse]

\* AppState of either server, with the requests in flight; lock is the
\* request that holds the Mutex (0: free; the web server has none)
Serving(front) == [front |-> front, lock |-> 0, requests |-> [r \in Requests |-> Idle]]

\* main of the desktop build: manage(AppState { db: Mutex::new(db) })
TauriStart ==
  /\ app.front = "none"
  /\ app' = Serving("tauri")
  /\ UNCHANGED <<content, interactions, clock, last, unit>>

\* main of the web server: it returns at once on an empty store or when
\* the count fails; otherwise AppState { db: Arc::new(db) }
WebStart ==
  /\ app.front = "none"
  /\ \E fails \in BOOLEAN :
       LET content_count == get_content_count(content, fails) IN
       app' = IF content_count.ok /\ content_count.val # 0
              THEN Serving("web")
              ELSE [front |-> "exited"]
  /\ UNCHANGED <<content, interactions, clock, last, unit>>

\* The record_interaction requests that have not returned
PendingRecords == {r \in Requests : /\ app.requests[r].pc # "idle"
                                    /\ app.requests[r].command = "record_interaction"}

\* The front end invokes a command / a client sends a request
RequestArrives(r) ==
  /\ app.front \in {"tauri", "web"}
  /\ app.requests[r].pc = "idle"
  /\ \E command \in Commands :
       /\ command = "record_interaction" =>
            Len(interactions) + Cardinality(PendingRecords) < MaxInteractions
       /\ app' = [app EXCEPT !.requests[r] =
                     [pc |-> "called", command |-> command, response |-> NoResponse]]
  /\ UNCHANGED <<content, interactions, clock, last, unit>>

\* state.db.lock(): the command waits until the Mutex is free
TauriLock(r) ==
  /\ app.front = "tauri"
  /\ app.requests[r].pc = "called"
  /\ app.lock = 0
  /\ app' = [app EXCEPT !.lock = r, !.requests[r].pc = "inside"]
  /\ last' = NoCall
  /\ UNCHANGED <<content, interactions, clock, unit>>

\* The Database call of the command that holds the Mutex
TauriCall(r) ==
  /\ app.front = "tauri"
  /\ app.requests[r].pc = "inside"
  /\ last.op = "none"
  /\ IF app.requests[r].command = "get_random_content"
     THEN GetWeightedRandomContent
     ELSE RecordInteraction

\* The result of a Tauri command (lines 40-44 and 63-64)
TauriResponse(command, call) ==
  IF command = "get_random_content"
  THEN IF call.result = "ok" THEN [status |-> "Ok", body |-> "content"]
       ELSE IF call.result = "none" THEN [status |-> "Err", body |-> "No content available"]
       ELSE [status |-> "Err", body |-> "Database error"]
  ELSE IF call.result = "ok" THEN [status |-> "Ok", body |-> ""]
       ELSE [status |-> "Err", body |-> "Failed to record interaction"]

\* The command returns; the MutexGuard is dropped
TauriReturn(r) ==
  /\ app.front = "tauri"
  /\ app.requests[r].pc = "inside"
  /\ last.op # "none"
  /\ app' = [app EXCEPT !.lock = 0,
                        !.requests[r] = [pc |-> "idle", command |-> @.command,
                                         response |-> TauriResponse(@.command, last)]]
  /\ UNCHANGED <<content, interactions, clock, last, unit>>

\* A web handler starts on its request: state.db is used as it is
WebEnter(r) ==
  /\ app.front = "web"
  /\ app.requests[r].pc = "called"
  /\ app' = [app EXCEPT !.requests[r].pc = "inside"]
  /\ UNCHANGED <<content, interactions, clock, last, unit>>

\* The response of the web handler get_random_content (lines 86-96)
WebContentResponse(result) ==
  IF ~result.ok THEN [status |-> "500", body |-> "Database error"]
  ELSE IF ~result.val.some THEN [status |-> "404", body |-> "No content available"]
  ELSE [status |-> "200", body |-> "content"]

\* A web handler makes its Database call and returns
WebReturn(r) ==
  /\ app.front = "web"
  /\ app.requests[r].pc = "inside"
  /\ IF app.requests[r].command = "get_random_content"
     THEN /\ \E result \in lib_get_weighted_random_content(content, interactions) :
               app' = [app EXCEPT !.requests[r] =
                         [pc |-> "idle", command |-> @.command,
                          response |-> WebContentResponse(result)]]
          /\ UNCHANGED <<interactions, clock>>
     ELSE \E content_id \in 1..(Len(content) + 1), fully_read \in BOOLEAN,
             fails \in BOOLEAN, foreign_keys \in BOOLEAN :
            LET dangling == ~(\E k \in 1..Len(content) : content[k].id = content_id)
                refused == fails \/ (dangling /\ foreign_keys)
            IN /\ StoreViewing(UserInteraction(content_id, fully_read, clock), refused)
               /\ app' = [app EXCEPT !.requests[r] =
                             [pc |-> "idle", command |-> @.command,
                              response |-> IF refused
                                           THEN [status |-> "500",
                                                 body |-> "Failed to record interaction"]
                                           ELSE [status |-> "200", body |-> ""]]]
  /\ UNCHANGED <<content, last, unit>>

NextServe ==
  \/ TauriStart
  \/ WebStart
  \/ \E r \in Requests : RequestArrives(r)
  \/ \E r \in Requests : TauriLock(r)
  \/ \E r \in Requests : TauriCall(r)
  \/ \E r \in Requests : TauriReturn(r)
  \/ \E r \in Requests : WebEnter(r)
  \/ \E r \in Requests : WebReturn(r)

SpecServe == InitFront /\ [][NextServe]_vars

---------------------------------------------------------------------------
(* The ingestion stores its units (bin/fetch_data.rs, lines 316-332) *)

\* A slip: the id of the last row stored is handed out again
ReturningId_reused(c) == Max(Len(c), 1)

\* RETURNING id of an INSERT into a table with AUTOINCREMENT whose rows are
\* never deleted: one more than the rows stored
ReturningId(c) == Len(c) + 1

\* ContentUnit::new(topic, title, content, source_url)
IngestUnit(topic, text) == [topic |-> topic] @@ ContentUnit_new(text)

\* The next unit of the ingestion is made
NewUnit ==
  /\ unit.stage \in {"none", "inserted", "failed"}
  /\ \E topic \in LibTopic, text \in Texts(2) : unit' = IngestUnit(topic, text)
  /\ UNCHANGED <<content, interactions, clock, last, app>>

\* db.insert_content(&mut unit) of the library build: on success the row is
\* stored and its id written to the unit; on failure `?` returns before
\* content.id is assigned
InsertUnit ==
  /\ unit.stage = "new"
  /\ Len(content) < MaxContent
  /\ \E fails \in BOOLEAN :
       IF fails
       THEN /\ content' = content
            /\ unit' = [unit EXCEPT !.stage = "failed"]
       ELSE /\ content' = Append(content, ContentRow(ReturningId(content),
                                                      to_string(unit.topic)))
            /\ unit' = [unit EXCEPT !.stage = "inserted", !.id = ReturningId(content)]
  /\ UNCHANGED <<interactions, clock, last, app>>

NextIngest ==
  \/ NewUnit
  \/ InsertUnit
  \/ OtherInsertContent

SpecIngest == Init /\ [][NextIngest]_vars

---------------------------------------------------------------------------
(* The selector on stored histories *)

\* n interactions of one kind on the first content row
Older(n, fully_read) == [i \in 1..n |-> UserInteraction(1, fully_read, i)]

OlderHistories == {Older(n, fully_read) : n \in 0..MaxOlder, fully_read \in BOOLEAN}

\* The content rows the later interactions are on
HistoryIds == {1, 2}

\* The later interactions, as many as the recent list can hold, of either
\* kind, stamped in order
LaterHistories(start) ==
  UNION {{[i \in 1..n |-> UserInteraction(h[i][1], h[i][2], start + i)] :
            h \in [1..n -> HistoryIds \X BOOLEAN]} : n \in 0..RecentLimit}

\* A store as insert_content and record_interaction leave it: one content
\* row per topic of the registry and a history of interactions
InitSel ==
  /\ content = [k \in 1..NumTopics |-> ContentRow(k, to_string(Topic_all[k]))]
  /\ \E older \in OlderHistories :
       \E later \in LaterHistories(Len(older)) : interactions = older \o later
  /\ clock = Len(interactions) + 1
  /\ last = NoCall
  /\ app = NoApp
  /\ unit = NoUnit

\* One selection on the stored history
SelectOnce == last.op = "none" /\ GetWeightedRandomContent

NextSel == SelectOnce

SpecSel == InitSel /\ [][NextSel]_vars

---------------------------------------------------------------------------
(* What the tables say, counted directly *)

Selecting == last.op = "get_weighted_random_content"

\* The interactions of one kind whose content row is stored under topic t
InteractionsOn(t, kind) ==
  {i \in 1..Len(interactions) :
     /\ interactions[i].interaction_type = kind
     /\ \E k \in 1..Len(content) : /\ content[k].id = interactions[i].content_id
                                   /\ content[k].topic = to_string(t)}

FullyReadOn(t) == Cardinality(InteractionsOn(t, "fully_read"))

SkippedOn(t) == Cardinality(InteractionsOn(t, "skipped"))

\* Some interaction is on a content row whose topic is not of the registry
ForeignInteraction ==
  \E i \in 1..Len(interactions), k \in 1..Len(content) :
    /\ content[k].id = interactions[i].content_id
    /\ content[k].topic \notin {to_string(t) : t \in Topic}

\* Some content row is stored under topic t
HasContent(t) == \E k \in 1..Len(content) : content[k].topic = to_string(t)

\* m is the mapping of completion ratios of the stored interactions
IsCompletionRatios(m) ==
  /\ DOMAIN m \subseteq Topic
  /\ \A t \in Topic :
       IF FullyReadOn(t) + SkippedOn(t) > 0
       THEN /\ t \in DOMAIN m
            /\ m[t] % Decimals = 0
            /\ (m[t] \div Decimals) * (FullyReadOn(t) + SkippedOn(t))
                 = FullyReadOn(t) * (Scale \div Decimals)
            /\ 0 <= m[t] /\ m[t] <= Scale
       ELSE t \notin DOMAIN m

---------------------------------------------------------------------------
(* Claims on the stored state and on the call as a whole *)

\* C1: in every stored state get_topic_preferences, when its query answers,
\* maps exactly the topics with at least one fully_read or skipped interaction
\* on their stored content to fully_read / (fully_read + skipped), a value in
\* [0,1]; a topic without one has no entry; an empty history gives the empty
\* mapping.  (It returns an error instead exactly when an interaction is on a
\* row whose topic does not decode.)
C1_PreferencesAreCompletionRatios ==
  LET r == get_topic_preferences(content, interactions, FALSE) IN
  /\ r.ok <=> ~ForeignInteraction
  /\ r.ok => IsCompletionRatios(r.val)
  /\ interactions = <<>> => r.ok /\ DOMAIN r.val = {}
  /\ (Selecting /\ last.path # "") => IsCompletionRatios(last.preferences)

\* C1 witness: a selection has read a mapping in which one topic has the
\* ratio 1/2 and another topic, without interactions, has no entry
C1_Witness ==
  /\ Selecting /\ last.path = "weighted"
  /\ \E t, u \in Topic :
       /\ t \in DOMAIN last.preferences /\ 2 * last.preferences[t] = Scale
       /\ FullyReadOn(t) = 1 /\ SkippedOn(t) = 1
       /\ u \notin DOMAIN last.preferences

\* A selection that returns, without failing, the stored row k
ReturnsRow(k) ==
  /\ GetWeightedRandomContent
  /\ last'.result = "ok" /\ last'.path = "uniform" /\ last'.failed = {}
  /\ last'.unit = Some(content[k].id, from_str(Topic, content[k].topic).val)

\* C2: with no interaction recorded a selection whose first two queries answer
\* takes the unweighted path; every stored content unit of any topic is a
\* possible result; the result is absent only if no content is stored
C2_EmptyHistoryIsUniform ==
  interactions = <<>> =>
    /\ \A k \in 1..Len(content) :
         from_str(Topic, content[k].topic).ok => ENABLED ReturnsRow(k)
    /\ Selecting =>
         /\ last.failed \cap {"prefs", "recent"} = {} => last.path = "uniform"
         /\ last.path # "weighted"
         /\ last.result = "none" => content = <<>>
         /\ last.result = "ok" =>
              \E k \in 1..Len(content) :
                last.unit = Some(content[k].id, from_str(Topic, content[k].topic).val)

\* C2 witness: no interaction, two stored units of different topics, and the
\* selection has returned the second of them on the unweighted path
C2_Witness ==
  /\ interactions = <<>> /\ Len(content) = 2
  /\ content[1].topic # content[2].topic
  /\ Selecting /\ last.path = "uniform" /\ last.result = "ok" /\ last.unit.id = 2

\* C8: when the selector has picked a topic without stored content and the
\* content query answers, the call returns the absent value, not an error and
\* not a unit of another topic
C8_NoContentForTopicIsAbsent ==
  (/\ Selecting /\ last.path = "weighted"
   /\ ~HasContent(last.topic)
   /\ "content" \notin last.failed)
  => last.result = "none" /\ last.unit = None

\* C8 witness: the picked topic has no content, another topic has, and the
\* call has returned the absent value
C8_Witness ==
  /\ Selecting /\ last.path = "weighted" /\ last.result = "none"
  /\ ~HasContent(last.topic)
  /\ \E t \in Topic : HasContent(t)

\* C9: if any storage query of a call fails, the call returns an error
C9_EveryFailureIsReturned ==
  (Selecting /\ last.failed # {}) => last.result = "err"

---------------------------------------------------------------------------
(* Claims on the scores of select_topic_with_diversity *)

Weighted == Selecting /\ last.path = "weighted"

CountOn(t) == FullyReadOn(t) + SkippedOn(t)

\* The positions (from 0) of topic t in the recent list the call has read
PositionsOf(t) == {i \in 0..(Len(last.recent_topics) - 1) : last.recent_topics[i + 1] = t}

\* The preference score the call has read for t, or 0.3
BaseOf(t) == IF t \in DOMAIN last.preferences THEN last.preferences[t] ELSE 3 * (Scale \div 10)

\* 0.2 when the topic has fewer than 3 interactions
BonusOf(t) == IF CountOn(t) < 3 THEN 2 * (Scale \div 10) ELSE 0

\* 0.2 when the count the call has read is below 3, a failed count being read as 0
BonusRead(t) == IF CountOn(t) < 3 \/ t \in last.count_fails THEN 2 * (Scale \div 10) ELSE 0

\* The factors of positions 0 to 4, in tenths
Factor(i) == <<1, 3, 6, 8, 9>>[i + 1]

\* The score of t after the penalties of the call's recent list
PenalisedOf(t) == ApplyPenalties(t, last.recent_topics, 0, BaseOf(t))

\* C3 as stated, on the calls in which every query has answered: a topic
\* outside the recent list has the weight base + bonus, where bonus is 0.2
\* exactly when the topic has fewer than 3 interactions
C3_WeightIsBasePlusBonus ==
  (Weighted /\ last.failed = {}) => \A t \in Topic :
    PositionsOf(t) = {} => last.topic_scores[t] = BaseOf(t) + BonusOf(t)

\* C3, amended: a topic outside the recent list has the weight
\* max(base + bonus, 0.05), where base is its preference score or 0.3 and
\* bonus is 0.2 exactly when the interaction count the selector has read for
\* it is below 3, a failed count query being read as 0
C3_WeightIsFlooredBasePlusBonus ==
  Weighted => \A t \in Topic :
    PositionsOf(t) = {} =>
      /\ last.topic_scores[t] = Max(BaseOf(t) + BonusRead(t), 5 * (Scale \div 100))
      /\ (t \in DOMAIN last.preferences) <=> CountOn(t) > 0

\* C3 witness: a topic with at least three interactions, all fully read, is
\* outside the recent list and has the weight 1.0
C3_Witness ==
  /\ Weighted
  /\ \E t \in Topic :
       /\ PositionsOf(t) = {} /\ CountOn(t) >= 3 /\ SkippedOn(t) = 0
       /\ last.count_fails = {}
       /\ last.topic_scores[t] = Scale

\* C4: a topic that is exactly once in the recent list, at position i, has its
\* base score multiplied by 0.1, 0.3, 0.6, 0.8, 0.9 for i = 0..4, and the bonus
\* and the floor are applied to the product
C4_SinglePositionPenalty ==
  Weighted => \A t \in Topic : \A i \in PositionsOf(t) :
    PositionsOf(t) = {i} =>
      /\ BaseOf(t) % 10 = 0
      /\ PenalisedOf(t) = Factor(i) * (BaseOf(t) \div 10)
      /\ \E bonus \in {0, 2 * (Scale \div 10)} :
           last.topic_scores[t] = Max(PenalisedOf(t) + bonus, 5 * (Scale \div 100))

\* C4 witness: the recent list is [T], the base score of T is 1.0 and its
\* penalised score is 0.1
C4_Witness ==
  /\ Weighted
  /\ \E t \in Topic :
       /\ last.recent_topics = <<t>>
       /\ BaseOf(t) = Scale
       /\ PenalisedOf(t) = Scale \div 10

\* C5: of a topic at several positions of the recent list only the factor of
\* the most recent position is applied
C5_OnlyMostRecentPosition ==
  Weighted => \A t \in Topic :
    PositionsOf(t) # {} =>
      LET first == CHOOSE i \in PositionsOf(t) : \A j \in PositionsOf(t) : i <= j IN
      PenalisedOf(t) = Factor(first) * (BaseOf(t) \div 10)

\* C6: the weight map has an entry for every topic of Topic::all(), every
\* weight is at least 0.05 and at most 1.2, and the total is positive
C6_WeightsWithinBounds ==
  Weighted =>
    /\ DOMAIN last.topic_scores = {Topic_all[k] : k \in 1..Len(Topic_all)}
    /\ \A t \in DOMAIN last.topic_scores :
         /\ last.topic_scores[t] >= 5 * (Scale \div 100)
         /\ last.topic_scores[t] <= 12 * (Scale \div 10)
    /\ \A order \in Orders(DOMAIN last.topic_scores) : ExactTotal(order, last.topic_scores) > 0

\* C6 witness: one topic sits on the floor 0.05 and another on the top 1.2
C6_Witness ==
  /\ Weighted
  /\ \E t, u \in Topic :
       /\ last.topic_scores[t] = 5 * (Scale \div 100)
       /\ last.topic_scores[u] = 12 * (Scale \div 10)

\* The selection has run to its end
Selected == last.op = "get_weighted_random_content" /\ last.path # "preferences"

\* C10: whenever a row read during a selection carries a topic string that
\* does not decode to a topic of the registry, the selection returns an
\* error, and no row read is left out of what the selection computes from
C10_UndecodableRowIsAnError ==
  Selected => /\ last.skipped = 0
              /\ last.undecodable > 0 => last.result = "err"

\* weighted_random_selection has returned
Drawn == last.op = "weighted_random_selection"

\* The draw returns topic t from the loop
LoopDraws(t) == WeightedRandomSelection /\ last'.topic = t /\ ~last'.fallback

C11_OneInteractionPerViewing ==
  app.front \in {"tui", "gui", "exited"} /\ app.ended # 0 - 1 => app.ended = 1

\* C12: after ContentUnit::new and after every clean_content, word_count is
\* the number of whitespace-delimited tokens of the unit's current body
C12_WordCountIsTokenCount ==
  unit.stage \in {"new", "clean"} => unit.word_count = split_whitespace_count(unit.content)

\* C13: a second clean_content leaves the body the first one left
C13_CleanContentIsIdempotent ==
  unit.stage = "clean" /\ unit.cleaned = 2 => unit.content = unit.once

\* is_suitable_length has answered for a unit as ContentUnit::new made it
Answered == unit.stage = "new" /\ unit.suitable # "unknown"

\* C20: is_suitable_length holds exactly for 30 to 800 words: it holds at
\* 30 and at 800, it fails at 29 and at 801
C20_SuitableFrom30To800 ==
  Answered =>
    /\ unit.suitable = "yes" <=> (30 <= Len(unit.content) \div 2 /\ Len(unit.content) \div 2 <= 800)
    /\ Len(unit.content) \in {2 * 30, 2 * 800} => unit.suitable = "yes"
    /\ Len(unit.content) \in {2 * 29, 2 * 801} => unit.suitable = "no"

\* A unit of 800 words has been found suitable
C20_Witness ==
  Answered /\ Len(unit.content) = 2 * 800 /\ unit.suitable = "yes"

\* s is the beginning of t
IsPrefix(s, t) == Len(s) <= Len(t) /\ SubSeq(t, 1, Len(s)) = s

\* C14: no Database operation removes or changes a stored row: in every
\* step both tables keep the rows they had, a successful record_interaction
\* adds exactly one interaction row, a successful insert_content adds
\* exactly one content row, and a failed call or a selection adds none
C14_StoresOnlyGrow ==
  [][/\ IsPrefix(content, content')
     /\ IsPrefix(interactions, interactions')
     /\ Len(content') - Len(content) =
          (IF last'.op = "insert_content" /\ last'.result = "ok" THEN 1 ELSE 0)
     /\ Len(interactions') - Len(interactions) =
          (IF last'.op = "record_interaction" /\ last'.result = "ok" THEN 1 ELSE 0)]_vars

\* Both tables are filled, rows of both kinds having been added one by one
C14_Witness ==
  /\ Len(content) = MaxContent
  /\ Len(interactions) = MaxInteractions
  /\ last.op = "record_interaction" /\ last.result = "ok"

\* C15: get_weighted_random_content, with every query it makes, leaves the
\* content rows and the interaction rows as they were, whether it returns
\* content, the absent value or an error
C15_SelectionOnlyReads ==
  [][last'.op = "get_weighted_random_content" /\ last'.result \in {"ok", "none", "err"}
       => content' = content /\ interactions' = interactions]_vars

\* A selection on a store with content and a history has returned content
C15_Witness ==
  /\ Selecting /\ last.result = "ok" /\ last.unit.some
  /\ last.path = "weighted"
  /\ Len(content) = MaxContent /\ Len(interactions) > 0

\* The requests that are inside an operation on the Database handle
Inside == {r \in Requests : app.requests[r].pc = "inside"}

\* C16: no two requests are at the same time inside an operation on the
\* same Database handle, in the desktop front end and in the web front end
C16_OneRequestInsideTheHandle ==
  app.front \in {"tauri", "web"} => Cardinality(Inside) <= 1

\* The desktop command and the web handler answer the absent result and a
\* storage error differently
ServersTellAbsentFromError ==
  /\ TauriResponse("get_random_content", [result |-> "none"]) #
       TauriResponse("get_random_content", [result |-> "err"])
  /\ WebContentResponse(Ok(None)) # WebContentResponse(Err)

\* A load of the egui application that ends with the given outcome and display
GuiLoads(outcome, shown) ==
  /\ GuiStart \/ GuiNextStory
  /\ app'.loaded = outcome
  /\ GuiShows(app') = shown

\* Every display of the egui application in the model
GuiDisplays ==
  {[label |-> "content", id |-> k] : k \in 1..MaxContent} \cup
  {[label |-> "No content available", id |-> 0]}

\* C17: each front end reports the absent result of
\* get_weighted_random_content differently from a storage error; for the
\* egui application, no load can end with the same display after the
\* absent result as after an error
C17_AbsentDiffersFromError ==
  /\ ServersTellAbsentFromError
  /\ \A shown \in GuiDisplays :
       ~(ENABLED GuiLoads("none", shown) /\ ENABLED GuiLoads("err", shown))

\* C18: a unit made by ContentUnit::new has id 0; after a successful
\* insert_content its id is the id of the row just stored, is not 0 and is
\* the id of no row stored before; after a failed insert_content it is
\* still 0
C18_IdAssignedOnInsert ==
  /\ unit.stage = "new" => unit.id = 0
  /\ unit.stage = "failed" => unit.id = 0
  /\ unit.stage = "inserted" =>
       \E k \in 1..Len(content) :
         /\ content[k].id = unit.id
         /\ content[k].topic = to_string(unit.topic)
         /\ unit.id # 0
         /\ \A j \in 1..Len(content) : j # k => content[j].id # unit.id

\* The second unit stored has its id
C18_Witness ==
  /\ unit.stage = "inserted"
  /\ Len(content) = MaxContent
  /\ unit.id = content[Len(content)].id

\* The list `recent` names, in the order `o`, the topics of the content of
\* the first `limit` interactions
TopicsOfTheLatest(recent, o, limit) ==
  /\ Len(recent) = Min(limit, Len(o))
  /\ \A k \in 1..Len(recent) :
       to_string(recent[k]) = JoinedTopic(content, interactions, o[k])

\* get_recent_topics has answered within the selection
RecentTopicsRead == SelectionContinues /\ "recent" \notin last'.failed

\* C19: get_recent_topics(limit) returns at most limit topics, which are the
\* topics of the content of the limit interactions of the latest timestamps,
\* by decreasing timestamp, the topic of the latest interaction first
C19_LatestInteractionsFirst ==
  [][RecentTopicsRead =>
       /\ Len(last'.recent_topics) <= RecentLimit
       /\ \E o \in OrderByTimestampDesc(interactions, Joined(content, interactions)) :
            TopicsOfTheLatest(last'.recent_topics, o, RecentLimit)]_vars

\* C21: every unit process_article_content returns has a cleaned body of
\* between 30 and 800 whitespace-delimited tokens
C21_ReturnedUnitsAreSuitable ==
  unit.stage = "processed" =>
    \A k \in 1..Len(unit.units) :
      /\ split_whitespace_count(unit.units[k].content) >= MinWords
      /\ split_whitespace_count(unit.units[k].content) <= MaxSuitableWords

\* The preference map of the library build on the store
LibPreferences == lib_get_topic_preferences(content, interactions, FALSE).val

\* The library selection has returned a unit while preferences exist
LibWeighted ==
  /\ last.op = "lib_get_weighted_random_content"
  /\ last.unit.some
  /\ DOMAIN LibPreferences # {}

\* C22: when a preference exists the library selection returns content only
\* of a topic whose preference score is maximal if some score is above 0,
\* and only of Topic::Facts if every score is 0, whatever the order of the
\* interactions and however few interactions a topic has
C22_LibraryTakesTheBestTopic ==
  LibWeighted =>
    IF \E t \in DOMAIN LibPreferences : LibPreferences[t] > 0
    THEN /\ last.unit.topic \in DOMAIN LibPreferences
         /\ \A t \in DOMAIN LibPreferences : LibPreferences[t] <= LibPreferences[last.unit.topic]
    ELSE last.unit.topic = "Facts"

\* The latest interaction is on a topic read in full, an earlier one on a
\* topic skipped, and the unit returned is of the former; or every score is
\* 0, Facts has no interaction and the unit returned is of Facts
C22_Witness ==
  /\ LibWeighted
  /\ \/ /\ DOMAIN LibPreferences = {"Facts", "History"}
        /\ LibPreferences["Facts"] = 0
        /\ LibPreferences["History"] > 0
        /\ interactions[Len(interactions)].interaction_type = "fully_read"
        /\ last.unit.topic = "History"
     \/ /\ DOMAIN LibPreferences = {"History"}
        /\ LibPreferences["History"] = 0
        /\ last.unit.topic = "Facts"

\* The terminal front end runs with no unit on display
NothingDisplayed == app.front = "tui" /\ ~app.current_content.some

\* C23: in the terminal front end, whenever the store holds a content unit
\* and no unit is on display, a unit is displayed later on (or the viewer
\* has left the program)
C23_UnitEventuallyDisplayed ==
  (NothingDisplayed /\ Len(content) >= 1)
    ~> (app.front = "exited" \/ (app.front = "tui" /\ app.current_content.some))

\* An iteration of run_app stores an interaction
TuiRecords == RunAppIteration /\ Len(interactions') = Len(interactions) + 1

\* C24: the interaction the terminal front end records is for the unit on
\* display and carries its id; it is fully_read exactly when that unit was
\* fully displayed and at least 3 seconds had passed since it was set, and
\* skipped otherwise
C24_FullyReadWhenDisplayedAndThreeSeconds ==
  [][TuiRecords =>
       LET recorded == interactions'[Len(interactions')] IN
       /\ app.current_content.some
       /\ recorded.content_id = app.current_content.id
       /\ recorded.interaction_type \in {"fully_read", "skipped"}
       /\ recorded.interaction_type = "fully_read"
            <=> (app.fully_displayed /\ app.seconds >= ReadingThreshold)]_vars

\* The terminal front end has been left
TuiLeft == app.front = "exited" /\ "should_quit" \in DOMAIN app /\ app.should_quit

\* A unit fully displayed for 3 seconds was recorded as fully_read, or a
\* unit fully displayed for less was recorded as skipped
C24_Witness ==
  /\ TuiLeft
  /\ Len(interactions) = 1
  /\ interactions[1].content_id = app.current_content.id
  /\ app.fully_displayed
  /\ \/ app.seconds >= ReadingThreshold /\ interactions[1].interaction_type = "fully_read"
     \/ app.seconds < ReadingThreshold /\ interactions[1].interaction_type = "skipped"

\* The terminal front end shows a unit
TuiDisplays == app.front = "tui" /\ app.current_content.some

\* What handle_events does to the App as it is: Right/Enter/Space on a unit
\* not fully displayed completes the display and changes nothing else; a
\* key clears the unit only if it is one of these and the unit is fully
\* displayed; q/Esc sets should_quit and changes nothing else
KeysKeepTheUnit ==
  TuiDisplays =>
    /\ ~app.fully_displayed =>
         handle_events(app, "next") =
           [app EXCEPT !.displayed_chars = app.current_content.len, !.fully_displayed = TRUE]
    /\ \A key \in Keys :
         ~has_content(handle_events(app, key)) => key = "next" /\ app.fully_displayed
    /\ handle_events(app, "quit") = [app EXCEPT !.should_quit = TRUE]

\* C25: in the terminal front end Right/Enter/Space on a unit not fully
\* displayed only completes its display; the unit is cleared only by such a
\* key pressed while fully_displayed is true, so that a unit not fully
\* displayed stays the current one with no less of it displayed; q/Esc sets
\* should_quit and never clears the unit
C25_ClearedOnlyWhenFullyDisplayed ==
  /\ []KeysKeepTheUnit
  /\ [][(TuiDisplays /\ ~app.fully_displayed) =>
          /\ app'.current_content = app.current_content
          /\ app'.displayed_chars >= app.displayed_chars]_vars
  /\ [][(TuiDisplays /\ app'.front = "exited") =>
          app'.current_content = app.current_content /\ app'.should_quit]_vars

\* A unit was replaced by the next one, which is now on display
C25_Witness == TuiDisplays /\ app.ended = 0 /\ ~app.fully_displayed

\* displayed_chars is within the body and fully_displayed comes with the
\* whole body displayed
DisplayedWithinTheBody ==
  app.current_content.some =>
    /\ app.displayed_chars <= app.current_content.len
    /\ app.fully_displayed => app.displayed_chars = app.current_content.len

\* C26: in every state of App reached through set_content,
\* update_typewriter and skip_typewriter, displayed_chars is at most the
\* length of the current content and fully_displayed is true only if
\* displayed_chars equals it; update_typewriter and skip_typewriter keep
\* the unit and never lower displayed_chars; set_content resets
\* displayed_chars to 0 and fully_displayed to false
C26_TypewriterInvariants ==
  /\ []DisplayedWithinTheBody
  /\ [][(UpdateTypewriter \/ SkipTypewriter) =>
          /\ app'.current_content = app.current_content
          /\ app'.displayed_chars >= app.displayed_chars]_vars
  /\ [][SetContent => app'.displayed_chars = 0 /\ ~app'.fully_displayed]_vars

\* The typewriter has cut its last step to the end of a body of odd length
C26_Witness ==
  /\ app.current_content.some
  /\ app.current_content.len = 3
  /\ app.displayed_chars = 3
  /\ app.updates = 2
  /\ ~app.fully_displayed

\* ceil(length / 2) + 1
CallsNeeded(length) == (length + 1) \div 2 + 1

\* C27: with a unit set, fully_displayed is true once update_typewriter
\* has been called ceil(length / 2) + 1 times since set_content (once for
\* an empty body), and once true it stays true until the next set_content
C27_FullyDisplayedAfterEnoughUpdates ==
  /\ [](app.current_content.some /\ app.updates >= CallsNeeded(app.current_content.len)
          => app.fully_displayed)
  /\ [][(app.fully_displayed /\ ~SetContent) => app'.fully_displayed]_vars

\* The longest body has been typed out by calls of update_typewriter alone,
\* the last of which has set fully_displayed
C27_Witness ==
  /\ app.current_content.some
  /\ app.current_content.len = MaxLength
  /\ app.updates = CallsNeeded(MaxLength)
  /\ app.fully_displayed

\* get_topic_preferences on the store as it is
PreferencesNow == get_topic_preferences(content, interactions, FALSE)

\* get_recent_topics(5) on the store as it is answers an empty list
NoRecentTopics(o) ==
  get_recent_topics(content, interactions, RecentLimit, o, FALSE) = Ok(<<>>)

\* C28: in every state reached through insert_content and
\* record_interaction of the desktop build, get_topic_preferences is the
\* empty map exactly when get_recent_topics(5) is the empty list
C28_NoPreferencesIffNoRecentTopics ==
  /\ PreferencesNow.ok
  /\ \A o \in OrderByTimestampDesc(interactions, Joined(content, interactions)) :
       DOMAIN PreferencesNow.val = {} <=> NoRecentTopics(o)

\* Of two interactions stored one has no content row, and the other gives
\* its topic a preference of 0.0 and a place in the recent topics
C28_Witness ==
  /\ Len(interactions) = 2
  /\ Cardinality(Joined(content, interactions)) = 1
  /\ \E t \in DOMAIN PreferencesNow.val : PreferencesNow.val[t] = 0
  /\ \A o \in OrderByTimestampDesc(interactions, Joined(content, interactions)) : ~NoRecentTopics(o)

\* An interaction on a stored content unit has been recorded
InteractionOnStoredUnit == Joined(content, interactions) # {}

\* C29: once an interaction on a stored content unit has been recorded,
\* such an interaction is there in every later state, the preference map is
\* not empty, and no selection takes the uniform path, whatever calls of
\* insert_content, record_interaction and get_weighted_random_content follow
C29_NoUniformPathAfterAnInteraction ==
  /\ [](InteractionOnStoredUnit => PreferencesNow.ok /\ DOMAIN PreferencesNow.val # {})
  /\ [][InteractionOnStoredUnit => InteractionOnStoredUnit']_vars
  /\ [][(InteractionOnStoredUnit /\ GetWeightedRandomContent)
          => last'.path # "uniform"]_vars

\* A selection after an interaction, followed by an insert_content and a
\* further selection, has taken the weighted path
C29_Witness ==
  /\ InteractionOnStoredUnit
  /\ Len(content) = MaxContent
  /\ \E k \in 1..Len(content) : \A i \in Joined(content, interactions) :
       interactions[i].content_id # content[k].id
  /\ Selecting
  /\ last.path = "weighted"

\* The interaction whose timestamp is later than every other one is on
\* content of topic t
LatestIsOn(t) ==
  \E i \in InteractionsOn(t, "fully_read") \cup InteractionsOn(t, "skipped") :
    \A j \in 1..Len(interactions) :
      j # i => interactions[j].timestamp < interactions[i].timestamp

\* C30: at the desktop selection that follows an interaction on content of
\* topic T later than every other interaction, T is at position 0 of the
\* recent topics and its weight is at most 0.3 while T has fewer than 3
\* interactions, at most 0.1 once it has 3 or more, and at least 0.05
C30_LatestTopicIsHeldDown ==
  Weighted => \A t \in Topic :
    LatestIsOn(t) =>
      /\ last.recent_topics[1] = t
      /\ last.topic_scores[t] <= (IF CountOn(t) < ExplorationThreshold THEN 3 ELSE 1) * (Scale \div 10)
      /\ last.topic_scores[t] >= 5 * (Scale \div 100)

====
